---- MODULE Spec2Model ----
(***************************************************************************)
(* Model of the chatserver package (server.go, message.go): the topic      *)
(* registry and its coordinator goroutine (Server.listen), the HTTP        *)
(* handlers handleGetMessages / handlePostMessage, the per-client expiry   *)
(* timer callback (Server.onClientTimeout), the cancellation goroutine,    *)
(* Topic and Client.                                                       *)
(*                                                                         *)
(* Every goroutine is a process with a program counter.  A step is one     *)
(* stretch of code between two points where the goroutine can block or     *)
(* where another goroutine can observe a difference: a channel             *)
(* rendezvous, the acquisition of a lock another goroutine may hold for    *)
(* long, or a single unsynchronised memory access.                         *)
(*                                                                         *)
(* Spec is the server of server.go.  EventLoopSpec is the event-loop       *)
(* variant of message.go (processMessages, deferred disconnect and drain), *)
(* which shares listen, Topic and Client.  SerializeSpec applies           *)
(* Message.Serialize to the messages of a bounded set.                     *)
(***************************************************************************)
EXTENDS Integers, Sequences, FiniteSets, TLC

\* ------------------------------------------------------------------ bounds
NumClients == 2
NumPubs == 2
\* how many events the environment produces in one run: POST requests, timer
\* expiries, requests cancelled by the remote end, a call of Shutdown
MaxEvents == 2

Clients == 1..NumClients
Pubs == 1..NumPubs
TopicNames == {"A", "B"}
\* The request body is opaque to the server: each POST carries its own.
Body(p) == <<"body", p>>

\* Topic objects (the *Topic pointers NewTopic returns).  An object that no
\* goroutine and no registry entry refers to is garbage and its identity is
\* reused: one object per name plus one per publisher that may hold a stale
\* pointer is enough.
TopicIds == 1..(NumPubs + 2)
NoTopic == 0

\* --------------------------------------------------------------- constants
connectionTimeoutSec == 30

\* time.Since(c.connectedAt) when the expiry callback runs, in tenths of a
\* second: the timeout plus the latency of the connect rendezvous and of the
\* callback, taken here to be at most half a second.
Delays == {0, 4, 5}
ElapsedDs == {connectionTimeoutSec * 10 + d : d \in Delays}

VARIABLES
    \* Server
    topics,         \* s.topics: name -> *Topic (NoTopic: no entry)
    lastMessageId,  \* s.lastMessageId
    chansClosed,    \* clientConnected/clientDisconnected/serverShutdown closed
    \* Topic objects
    tclients,       \* t.clients, per topic object
    \* Server.listen goroutine
    lpc, lclient, ltopic,
    shutdownCalled, \* Server.Shutdown() has been called
    \* Client objects and their goroutines
    ctopic,         \* c.topic
    closed,         \* c.messages has been closed
    hpc,            \* handleGetMessages goroutine
    cpc,            \* the goroutine waiting on request.Context().Done()
    tpc, ttmp, tid, tsec,   \* c.timer and the onClientTimeout callback
    \* handlePostMessage goroutines
    ppc, ptopic, pdata, ptmp, pid, ptop, ppending,
    \* the process
    crashed,        \* an unrecovered panic ended the process ("" while running)
    \* history (not program state)
    received,       \* per client: the messages its reader took off c.messages
    issued,         \* the ids generateMessageId returned, in return order
    closeCount,     \* per client: successful close(c.messages) calls
    stopCount,      \* per client: c.timer.Stop() calls that cancelled the timer
    cancelled,      \* per client: the remote end cancelled the request
    psnap,          \* per publish: the subscribers of its topic at the call
    pstay,          \* ... those of them in the registered topic ever since
    pfound,         \* per publish: getTopic found a registry entry
    hafter,         \* per client: its GET arrived after Shutdown had completed
    \* Message.Serialize
    message,        \* the Message the response writer is given
    output          \* the text written for it ("" before the write)

serverVars == <<topics, lastMessageId, chansClosed, tclients>>
listenVars == <<lpc, lclient, ltopic, shutdownCalled>>
clientVars == <<ctopic, closed, hpc, cpc>>
timerVars == <<tpc, ttmp, tid, tsec>>
pubVars == <<ppc, ptopic, pdata, ptmp, pid, ptop, ppending>>
histVars == <<received, issued, closeCount, stopCount, cancelled, psnap, pstay, pfound, hafter>>
serializeVars == <<message, output>>
vars == <<serverVars, listenVars, clientVars, timerVars, pubVars, crashed, histVars, serializeVars>>

\* ---------------------------------------------------------------- messages
NewMessage(id, data, event) == [id |-> id, data |-> data, event |-> event]
\* TextMessage built with the other constructor's event.
TextMessageAsTimeout(id, data) == NewMessage(id, data, "timeout")
TextMessage(id, data) == NewMessage(id, data, "msg")
TimeoutMessage(id, data) == NewMessage(id, data, "timeout")

\* A string that Serialize reads or builds is the sequence of its characters.
NL == "\n"
IdPrefix == <<"i", "d", ":", " ">>
EventPrefix == <<"e", "v", "e", "n", "t", ":", " ">>
DataPrefix == <<"d", "a", "t", "a", ":", " ">>

\* strings.Replace(s, "\n", "\ndata: ", -1)
RECURSIVE ReplaceNewlines(_)
ReplaceNewlines(s) ==
    IF s = <<>> THEN <<>>
    ELSE (IF Head(s) = NL THEN <<NL>> \o DataPrefix ELSE <<Head(s)>>)
            \o ReplaceNewlines(Tail(s))

\* Serialize that writes the data field whether or not it is empty.
SerializeDataAlways(m) ==
    (IF Len(m.id) > 0 THEN IdPrefix \o m.id \o <<NL>> ELSE <<>>)
        \o (IF Len(m.event) > 0 THEN EventPrefix \o m.event \o <<NL>> ELSE <<>>)
        \o DataPrefix \o ReplaceNewlines(m.data) \o <<NL>>
        \o <<NL>>
\* Message.Serialize
Serialize(m) ==
    (IF Len(m.id) > 0 THEN IdPrefix \o m.id \o <<NL>> ELSE <<>>)
        \o (IF Len(m.event) > 0 THEN EventPrefix \o m.event \o <<NL>> ELSE <<>>)
        \o (IF Len(m.data) > 0
            THEN DataPrefix \o ReplaceNewlines(m.data) \o <<NL>>
            ELSE <<>>)
        \o <<NL>>

\* math.RoundToEven of a duration given in tenths of a second, in seconds.
RoundToEven(ds) ==
    LET q == ds \div 10
        r == ds % 10
    IN  IF r < 5 THEN q
        ELSE IF r > 5 THEN q + 1
        ELSE IF q % 2 = 0 THEN q ELSE q + 1

\* fmt.Sprintf("%ds", n)
FormatSeconds(n) == ToString(n) \o "s"

\* ------------------------------------------------------------------- locks
\* s.mtx is read-locked for the whole of generateMessageId (and, for one
\* atomic step, by getTopic); createTopic/destroyTopic take it for writing.
InGenerate(pc) == pc \in {"genStore", "genRead"}
MtxFree ==
    /\ \A p \in Pubs : ~InGenerate(ppc[p])
    /\ \A c \in Clients : ~InGenerate(tpc[c])

\* t.mtx is read-locked by Topic.SendMessage for the whole broadcast;
\* Subscribe/Unsubscribe take it for writing.
Readers(t) == {p \in Pubs : ppc[p] \in {"send", "panicked"} /\ ptop[p] = t}
\* A write lock that does not wait for the readers.
NoReadersIgnored(t) == TRUE
NoReaders(t) == Readers(t) = {}

\* NewTopic: a fresh object, i.e. one nothing refers to.
Referenced ==
    {topics[n] : n \in TopicNames} \cup {ltopic}
        \cup {ptop[p] : p \in {q \in Pubs : ppc[q] \in {"rlock", "send", "panicked"}}}
NewTopic == CHOOSE t \in TopicIds : t \notin Referenced /\ \A u \in TopicIds \ Referenced : t <= u

Running == crashed = ""

\* The environment's events so far: the expiry callbacks that have started,
\* the requests cancelled remotely, the POST requests, Shutdown.
Fired == {c \in Clients : tpc[c] \in {"genStore", "genRead", "send", "disc", "done"}}
Cancelled == {c \in Clients : cancelled[c]}
Posted == {p \in Pubs : ppc[p] # "idle"}
Events ==
    Cardinality(Fired) + Cardinality(Cancelled) + Cardinality(Posted)
        + (IF shutdownCalled THEN 1 ELSE 0)
MoreEvents == Events < MaxEvents

\* NewServer: an empty registry, the coordinator in its select, no request yet.
NewServer ==
    /\ topics = [n \in TopicNames |-> NoTopic]
    /\ lastMessageId = 0
    /\ chansClosed = FALSE
    /\ tclients = [t \in TopicIds |-> {}]
    /\ lpc = "select"
    /\ lclient = 0
    /\ ltopic = NoTopic
    /\ shutdownCalled = FALSE
    /\ ctopic = [c \in Clients |-> ""]
    /\ closed = [c \in Clients |-> FALSE]
    /\ hpc = [c \in Clients |-> "new"]
    /\ cpc = [c \in Clients |-> "none"]
    /\ tpc = [c \in Clients |-> "unset"]
    /\ ttmp = [c \in Clients |-> 0]
    /\ tid = [c \in Clients |-> 0]
    /\ tsec = [c \in Clients |-> 0]
    /\ ppc = [p \in Pubs |-> "idle"]
    /\ ptopic = [p \in Pubs |-> ""]
    /\ pdata = [p \in Pubs |-> <<>>]
    /\ ptmp = [p \in Pubs |-> 0]
    /\ pid = [p \in Pubs |-> 0]
    /\ ptop = [p \in Pubs |-> NoTopic]
    /\ ppending = [p \in Pubs |-> {}]
    /\ crashed = ""
    /\ received = [c \in Clients |-> <<>>]
    /\ issued = <<>>
    /\ closeCount = [c \in Clients |-> 0]
    /\ stopCount = [c \in Clients |-> 0]
    /\ cancelled = [c \in Clients |-> FALSE]
    /\ psnap = [p \in Pubs |-> {}]
    /\ pstay = [p \in Pubs |-> {}]
    /\ pfound = [p \in Pubs |-> FALSE]
    /\ hafter = [c \in Clients |-> FALSE]

Init ==
    /\ NewServer
    /\ message = NewMessage(<<>>, <<>>, <<>>)
    /\ output = <<>>

\* ------------------------------------------------------- handleGetMessages
\* A GET request arrives: NewClient(topicName); the handler then blocks on
\* s.clientConnected <- client.  Clients are numbered in order of arrival.
HConnectCall(c) ==
    /\ Running
    /\ hpc[c] = "new"
    /\ \A b \in Clients : b < c => hpc[b] # "new"
    /\ \E n \in TopicNames : ctopic' = [ctopic EXCEPT ![c] = n]
    /\ hpc' = [hpc EXCEPT ![c] = "connecting"]
    /\ hafter' = [hafter EXCEPT ![c] = chansClosed]
    /\ UNCHANGED <<serverVars, listenVars, closed, cpc, timerVars, pubVars, crashed,
                   received, issued, closeCount, stopCount, cancelled, psnap, pstay, pfound>>
    /\ UNCHANGED serializeVars

\* s.clientConnected <- client on the closed channel panics; net/http
\* recovers a handler's panic and drops the connection.
HConnectPanic(c) ==
    /\ Running
    /\ hpc[c] = "connecting"
    /\ chansClosed
    /\ hpc' = [hpc EXCEPT ![c] = "panicked"]
    /\ UNCHANGED <<serverVars, listenVars, ctopic, closed, cpc, timerVars, pubVars, crashed, histVars>>
    /\ UNCHANGED serializeVars

\* Client.SetTimeoutHandler(d, f): arms c.timer, a one-shot timer that runs
\* f in its own goroutine after d unless it is stopped first.
SetTimeoutHandler(c) == tpc' = [tpc EXCEPT ![c] = "armed"]

\* client.SetTimeoutHandler(...); go func() { <-requestFinished ... } starts
\* the cancellation goroutine; the handler enters its
\* `for message := range client.messages` loop.
HSetTimeoutHandler(c) ==
    /\ Running
    /\ hpc[c] = "connected"
    /\ hpc' = [hpc EXCEPT ![c] = "reading"]
    /\ cpc' = [cpc EXCEPT ![c] = "wait"]
    /\ SetTimeoutHandler(c)
    /\ UNCHANGED <<serverVars, listenVars, ctopic, closed, ttmp, tid, tsec, pubVars, crashed, histVars>>
    /\ UNCHANGED serializeVars

\* The range loop ends when c.messages is closed; the handler returns, which
\* cancels the request's context: a cancellation goroutine still waiting on
\* <-requestFinished goes on to its send.
HReturn(c) ==
    /\ Running
    /\ hpc[c] = "reading"
    /\ closed[c]
    /\ hpc' = [hpc EXCEPT ![c] = "returned"]
    /\ cpc' = [cpc EXCEPT ![c] = IF @ = "wait" THEN "send" ELSE @]
    /\ UNCHANGED <<serverVars, listenVars, ctopic, closed, timerVars, pubVars, crashed, histVars>>
    /\ UNCHANGED serializeVars

\* The reader side of c.messages <- m: only a handler in its range loop
\* takes a message.
ReaderReady(c) == hpc[c] = "reading"

\* --------------------------------------------------- cancellation goroutine
\* <-requestFinished: the remote end went away while the handler is running.
RemoteCancel(c) ==
    /\ Running
    /\ cpc[c] = "wait"
    /\ hpc[c] = "reading"
    /\ MoreEvents
    /\ cpc' = [cpc EXCEPT ![c] = "send"]
    /\ cancelled' = [cancelled EXCEPT ![c] = TRUE]
    /\ UNCHANGED <<serverVars, listenVars, ctopic, closed, hpc, timerVars, pubVars, crashed,
                   received, issued, closeCount, stopCount, psnap, pstay, pfound, hafter>>
    /\ UNCHANGED serializeVars

\* s.clientDisconnected <- client on the closed channel: a panic in a bare
\* goroutine ends the process.
CancelSendPanic(c) ==
    /\ Running
    /\ cpc[c] = "send"
    /\ chansClosed
    /\ crashed' = "send on closed channel"
    /\ UNCHANGED <<serverVars, listenVars, clientVars, timerVars, pubVars, histVars>>
    /\ UNCHANGED serializeVars

\* ------------------------------------------------------------ Server.listen
\* case c := <-s.clientConnected
LRecvConnected(c) ==
    /\ Running
    /\ lpc = "select"
    /\ hpc[c] = "connecting"
    /\ lpc' = "conn"
    /\ lclient' = c
    /\ hpc' = [hpc EXCEPT ![c] = "connected"]
    /\ UNCHANGED <<serverVars, ltopic, shutdownCalled, ctopic, closed, cpc, timerVars, pubVars, crashed, histVars>>
    /\ UNCHANGED serializeVars

\* case c := <-s.clientDisconnected, sent by the cancellation goroutine
LRecvDisconnectedCancel(c) ==
    /\ Running
    /\ lpc = "select"
    /\ cpc[c] = "send"
    /\ lpc' = "disc"
    /\ lclient' = c
    /\ cpc' = [cpc EXCEPT ![c] = "done"]
    /\ UNCHANGED <<serverVars, ltopic, shutdownCalled, ctopic, closed, hpc, timerVars, pubVars, crashed, histVars>>
    /\ UNCHANGED serializeVars

\* case c := <-s.clientDisconnected, sent by onClientTimeout
LRecvDisconnectedTimer(c) ==
    /\ Running
    /\ lpc = "select"
    /\ tpc[c] = "disc"
    /\ lpc' = "disc"
    /\ lclient' = c
    /\ tpc' = [tpc EXCEPT ![c] = "done"]
    /\ UNCHANGED <<serverVars, ltopic, shutdownCalled, clientVars, ttmp, tid, tsec, pubVars, crashed, histVars>>
    /\ UNCHANGED serializeVars

\* case <-s.serverShutdown, sent by Server.Shutdown
LRecvShutdown ==
    /\ Running
    /\ lpc = "select"
    /\ ~shutdownCalled
    /\ MoreEvents
    /\ shutdownCalled' = TRUE
    /\ lpc' = "shut"
    /\ UNCHANGED <<serverVars, lclient, ltopic, clientVars, timerVars, pubVars, crashed, histVars>>
    /\ UNCHANGED serializeVars

\* getTopic
getTopic(name) == topics[name]
TopicExists(name) == topics[name] # NoTopic

\* onClientConnected that creates a Topic without looking the name up.
onClientConnectedAlwaysCreate ==
    /\ Running
    /\ lpc = "conn"
    /\ MtxFree
    /\ topics' = [topics EXCEPT ![ctopic[lclient]] = NewTopic]
    /\ tclients' = [tclients EXCEPT ![NewTopic] = {lclient}]
    /\ lpc' = "select"
    /\ lclient' = 0
    /\ UNCHANGED <<lastMessageId, chansClosed, ltopic, shutdownCalled, clientVars,
                   timerVars, pubVars, crashed, histVars>>
    /\ UNCHANGED serializeVars
\* onClientConnected: getTopic, createTopic if absent, topic.Subscribe.
onClientConnected ==
    /\ Running
    /\ lpc = "conn"
    /\ LET n == ctopic[lclient]
       IN  IF TopicExists(n)
           THEN /\ NoReaders(getTopic(n))
                /\ tclients' = [tclients EXCEPT ![getTopic(n)] = @ \cup {lclient}]
                /\ UNCHANGED topics
           ELSE /\ MtxFree
                /\ topics' = [topics EXCEPT ![n] = NewTopic]
                /\ tclients' = [tclients EXCEPT ![NewTopic] = {lclient}]
    /\ lpc' = "select"
    /\ lclient' = 0
    /\ UNCHANGED <<lastMessageId, chansClosed, ltopic, shutdownCalled, clientVars,
                   timerVars, pubVars, crashed, histVars>>
    /\ UNCHANGED serializeVars

\* Client.Unsubscribe without its close(c.messages).
ClientUnsubscribeNoClose(c) ==
    /\ tpc' = IF tpc[c] = "armed" THEN [tpc EXCEPT ![c] = "stopped"] ELSE tpc
    /\ stopCount' = IF tpc[c] = "armed" THEN [stopCount EXCEPT ![c] = @ + 1] ELSE stopCount
    /\ UNCHANGED <<closed, closeCount, crashed>>

\* Client.Unsubscribe: stop the timer if one is set, close c.messages.
\* Closing a closed channel panics.
ClientUnsubscribe(c) ==
    /\ tpc' = IF tpc[c] = "armed" THEN [tpc EXCEPT ![c] = "stopped"] ELSE tpc
    /\ stopCount' = IF tpc[c] = "armed" THEN [stopCount EXCEPT ![c] = @ + 1] ELSE stopCount
    /\ IF closed[c]
       THEN /\ crashed' = "close of closed channel"
            /\ UNCHANGED <<closed, closeCount, hafter>>
       ELSE /\ closed' = [closed EXCEPT ![c] = TRUE]
            /\ closeCount' = [closeCount EXCEPT ![c] = @ + 1]
            /\ UNCHANGED crashed

\* Topic.Unsubscribe: delete the client under the write lock, then
\* client.Unsubscribe().
TopicUnsubscribe(t, c) ==
    /\ NoReaders(t)
    /\ tclients' = [tclients EXCEPT ![t] = @ \ {c}]
    /\ pstay' = [p \in Pubs |-> IF ppc[p] = "done" THEN pstay[p] ELSE pstay[p] \ {c}]
    /\ ClientUnsubscribe(c)

\* HasSubscribers that never reports an empty topic.
HasSubscribersAlways(cl) == TRUE
\* Topic.HasSubscribers, of a subscriber set
HasSubscribers(cl) == Cardinality(cl) > 0

\* onClientDisconnected that closes the client also when its topic name has
\* no registry entry.
onClientDisconnectedClosing ==
    /\ Running
    /\ lpc = "disc"
    /\ LET n == ctopic[lclient]
           t == getTopic(n)
       IN  IF TopicExists(n)
           THEN /\ TopicUnsubscribe(t, lclient)
                /\ IF crashed' = "" /\ ~HasSubscribers(tclients'[t])
                   THEN lpc' = "destroy" /\ ltopic' = t /\ UNCHANGED lclient
                   ELSE lpc' = "select" /\ lclient' = 0 /\ UNCHANGED ltopic
           ELSE /\ lpc' = "select"
                /\ lclient' = 0
                /\ ClientUnsubscribe(lclient)
                /\ UNCHANGED <<ltopic, tclients, pstay>>
    /\ UNCHANGED <<topics, lastMessageId, chansClosed, shutdownCalled, ctopic, hpc, cpc,
                   ttmp, tid, tsec, pubVars, received, issued, cancelled, psnap, pfound, hafter>>
    /\ UNCHANGED serializeVars
\* onClientDisconnected up to the call of destroyTopic.
onClientDisconnected ==
    /\ Running
    /\ lpc = "disc"
    /\ LET n == ctopic[lclient]
           t == getTopic(n)
       IN  IF TopicExists(n)
           THEN /\ TopicUnsubscribe(t, lclient)
                /\ IF crashed' = "" /\ ~HasSubscribers(tclients'[t])
                   THEN lpc' = "destroy" /\ ltopic' = t /\ UNCHANGED lclient
                   ELSE lpc' = "select" /\ lclient' = 0 /\ UNCHANGED ltopic
           ELSE /\ lpc' = "select"
                /\ lclient' = 0
                /\ UNCHANGED <<ltopic, tclients, pstay, tpc, stopCount, closed, closeCount, crashed, hafter>>
    /\ UNCHANGED <<topics, lastMessageId, chansClosed, shutdownCalled, ctopic, hpc, cpc,
                   ttmp, tid, tsec, pubVars, received, issued, cancelled, psnap, pfound, hafter>>
    /\ UNCHANGED serializeVars

\* destroyTopic, called by onClientDisconnected for a topic left without
\* subscribers: delete(s.topics, topic.name) under s.mtx; topic.Destroy()
\* then ranges over the empty set.
destroyTopic ==
    /\ Running
    /\ lpc = "destroy"
    /\ MtxFree
    /\ topics' = [topics EXCEPT ![ctopic[lclient]] = NoTopic]
    /\ lpc' = "select"
    /\ ltopic' = NoTopic
    /\ lclient' = 0
    /\ UNCHANGED <<lastMessageId, chansClosed, tclients, shutdownCalled, clientVars,
                   timerVars, pubVars, crashed, histVars>>
    /\ UNCHANGED serializeVars

\* onServerShutdown, destroyTopics: one iteration of `range s.topics`,
\* destroyTopic up to topic.Destroy().
destroyTopicsNext ==
    /\ Running
    /\ lpc = "shut"
    /\ ltopic = NoTopic
    /\ MtxFree
    /\ \E n \in TopicNames :
        /\ TopicExists(n)
        /\ topics' = [topics EXCEPT ![n] = NoTopic]
        /\ ltopic' = IF tclients[getTopic(n)] = {} THEN NoTopic ELSE getTopic(n)
        /\ pstay' = [p \in Pubs |->
                IF ppc[p] = "done" THEN pstay[p] ELSE pstay[p] \ tclients[getTopic(n)]]
    /\ UNCHANGED <<lastMessageId, chansClosed, tclients, lpc, lclient, shutdownCalled, clientVars,
                   timerVars, pubVars, crashed, received, issued, closeCount, stopCount,
                   cancelled, psnap, pfound, hafter>>
    /\ UNCHANGED serializeVars

\* Topic.Destroy: one iteration of `range t.clients`, t.Unsubscribe(client).
TopicDestroy(c) ==
    /\ Running
    /\ lpc = "shut"
    /\ ltopic # NoTopic
    /\ c \in tclients[ltopic]
    /\ TopicUnsubscribe(ltopic, c)
    /\ ltopic' = IF tclients'[ltopic] = {} THEN NoTopic ELSE ltopic
    /\ UNCHANGED <<topics, lastMessageId, chansClosed, lpc, lclient, shutdownCalled, ctopic, hpc, cpc,
                   ttmp, tid, tsec, pubVars, received, issued, cancelled, psnap, pfound, hafter>>
    /\ UNCHANGED serializeVars

\* onServerShutdown after destroyTopics: close the three channels; listen
\* returns.
onServerShutdown ==
    /\ Running
    /\ lpc = "shut"
    /\ ltopic = NoTopic
    /\ \A n \in TopicNames : ~TopicExists(n)
    /\ chansClosed' = TRUE
    /\ lpc' = "stopped"
    /\ UNCHANGED <<topics, lastMessageId, tclients, lclient, ltopic, shutdownCalled, clientVars,
                   timerVars, pubVars, crashed, histVars>>
    /\ UNCHANGED serializeVars

\* -------------------------------------------------------- generateMessageId
\* s.lastMessageId++ under s.mtx.RLock() is a load and a store that other
\* holders of the read lock can interleave with; newId := s.lastMessageId is
\* a second load.
GenLoad == lastMessageId
GenStore(tmp) == tmp + 1
GenRead == lastMessageId

\* ----------------------------------------------------------- onClientTimeout
\* The timer fires: c.GetConnectedTime(), RoundToEven, then the argument
\* s.generateMessageId() is evaluated: RLock and the load of the increment.
TimerFire(c) ==
    /\ Running
    /\ tpc[c] = "armed"
    /\ MoreEvents
    /\ \E e \in ElapsedDs : tsec' = [tsec EXCEPT ![c] = RoundToEven(e)]
    /\ ttmp' = [ttmp EXCEPT ![c] = GenLoad]
    /\ tpc' = [tpc EXCEPT ![c] = "genStore"]
    /\ UNCHANGED <<serverVars, listenVars, clientVars, tid, pubVars, crashed, histVars>>
    /\ UNCHANGED serializeVars

TimerGenStore(c) ==
    /\ Running
    /\ tpc[c] = "genStore"
    /\ lastMessageId' = GenStore(ttmp[c])
    /\ tpc' = [tpc EXCEPT ![c] = "genRead"]
    /\ ttmp' = [ttmp EXCEPT ![c] = 0]
    /\ UNCHANGED <<topics, chansClosed, tclients, listenVars, clientVars, tid, tsec, pubVars,
                   crashed, histVars>>
    /\ UNCHANGED serializeVars

TimerGenRead(c) ==
    /\ Running
    /\ tpc[c] = "genRead"
    /\ tid' = [tid EXCEPT ![c] = GenRead]
    /\ issued' = Append(issued, GenRead)
    /\ tpc' = [tpc EXCEPT ![c] = "send"]
    /\ UNCHANGED <<serverVars, listenVars, clientVars, ttmp, tsec, pubVars, crashed,
                   received, closeCount, stopCount, cancelled, psnap, pstay, pfound, hafter>>
    /\ UNCHANGED serializeVars

\* c.SendMessage(TimeoutMessage(id, fmt.Sprintf("%ds", elapsed))): a
\* rendezvous with the reader, or a panic on the closed channel, in the
\* timer's own goroutine.
TimerSend(c) ==
    /\ Running
    /\ tpc[c] = "send"
    /\ IF closed[c]
       THEN /\ crashed' = "send on closed channel"
            /\ UNCHANGED <<tpc, received, hafter>>
       ELSE /\ ReaderReady(c)
            /\ received' = [received EXCEPT ![c] =
                   Append(@, [msg |-> TimeoutMessage(tid[c], FormatSeconds(tsec[c])), src |-> 0])]
            /\ tpc' = [tpc EXCEPT ![c] = "disc"]
            /\ UNCHANGED crashed
    /\ UNCHANGED <<serverVars, listenVars, clientVars, ttmp, tid, tsec, pubVars,
                   issued, closeCount, stopCount, cancelled, psnap, pstay, pfound, hafter>>
    /\ UNCHANGED serializeVars

\* s.clientDisconnected <- c on the closed channel.
TimerDiscPanic(c) ==
    /\ Running
    /\ tpc[c] = "disc"
    /\ chansClosed
    /\ crashed' = "send on closed channel"
    /\ UNCHANGED <<serverVars, listenVars, clientVars, timerVars, pubVars, histVars>>
    /\ UNCHANGED serializeVars

\* --------------------------------------------------------- handlePostMessage
\* The clients subscribed to the topic registered under a name.
Subscribers(n) == IF TopicExists(n) THEN tclients[getTopic(n)] ELSE {}

\* A POST request arrives with its topic name and body (POSTs are numbered
\* in order of arrival); the handler calls generateMessageId: RLock and the
\* load of the increment.
PubCall(p) ==
    /\ Running
    /\ ppc[p] = "idle"
    /\ \A q \in Pubs : q < p => ppc[q] # "idle"
    /\ MoreEvents
    /\ \E n \in TopicNames :
        /\ ptopic' = [ptopic EXCEPT ![p] = n]
        /\ pdata' = [pdata EXCEPT ![p] = Body(p)]
        /\ psnap' = [psnap EXCEPT ![p] = Subscribers(n)]
        /\ pstay' = [pstay EXCEPT ![p] = Subscribers(n)]
    /\ ptmp' = [ptmp EXCEPT ![p] = GenLoad]
    /\ ppc' = [ppc EXCEPT ![p] = "genStore"]
    /\ UNCHANGED <<serverVars, listenVars, clientVars, timerVars, pid, ptop, ppending, crashed,
                   received, issued, closeCount, stopCount, cancelled, pfound, hafter>>
    /\ UNCHANGED serializeVars

PubGenStore(p) ==
    /\ Running
    /\ ppc[p] = "genStore"
    /\ lastMessageId' = GenStore(ptmp[p])
    /\ ppc' = [ppc EXCEPT ![p] = "genRead"]
    /\ ptmp' = [ptmp EXCEPT ![p] = 0]
    /\ UNCHANGED <<topics, chansClosed, tclients, listenVars, clientVars, timerVars,
                   ptopic, pdata, pid, ptop, ppending, crashed, histVars>>
    /\ UNCHANGED serializeVars

PubGenRead(p) ==
    /\ Running
    /\ ppc[p] = "genRead"
    /\ pid' = [pid EXCEPT ![p] = GenRead]
    /\ issued' = Append(issued, GenRead)
    /\ ppc' = [ppc EXCEPT ![p] = "lookup"]
    /\ UNCHANGED <<serverVars, listenVars, clientVars, timerVars, ptopic, pdata, ptmp, ptop,
                   ppending, crashed, received, closeCount, stopCount, cancelled, psnap, pstay, pfound, hafter>>
    /\ UNCHANGED serializeVars

\* sendToTopic that broadcasts to any registered topic, whatever its name.
sendToTopicAnyName(p) ==
    /\ Running
    /\ ppc[p] = "lookup"
    /\ IF \E n \in TopicNames : TopicExists(n)
       THEN /\ \E n \in TopicNames :
                /\ TopicExists(n)
                /\ ptop' = [ptop EXCEPT ![p] = getTopic(n)]
            /\ pfound' = [pfound EXCEPT ![p] = TRUE]
            /\ ppc' = [ppc EXCEPT ![p] = "rlock"]
       ELSE /\ ppc' = [ppc EXCEPT ![p] = "done"]
            /\ UNCHANGED <<ptop, pfound>>
    /\ UNCHANGED <<serverVars, listenVars, clientVars, timerVars, ptopic, pdata, ptmp, pid,
                   ppending, crashed, received, issued, closeCount, stopCount, cancelled, psnap,
                   pstay, hafter>>
    /\ UNCHANGED serializeVars

\* sendToTopic that registers the name when it finds no entry.
sendToTopicCreating(p) ==
    /\ Running
    /\ ppc[p] = "lookup"
    /\ MtxFree
    /\ IF TopicExists(ptopic[p])
       THEN /\ ptop' = [ptop EXCEPT ![p] = getTopic(ptopic[p])]
            /\ pfound' = [pfound EXCEPT ![p] = TRUE]
            /\ ppc' = [ppc EXCEPT ![p] = "rlock"]
            /\ UNCHANGED topics
       ELSE /\ topics' = [topics EXCEPT ![ptopic[p]] = NewTopic]
            /\ ppc' = [ppc EXCEPT ![p] = "done"]
            /\ UNCHANGED <<ptop, pfound>>
    /\ UNCHANGED <<lastMessageId, chansClosed, tclients, listenVars, clientVars, timerVars,
                   ptopic, pdata, ptmp, pid, ppending, crashed, received, issued, closeCount,
                   stopCount, cancelled, psnap, pstay, hafter>>
    /\ UNCHANGED serializeVars

\* sendToTopic: getTopic; without an entry the message is logged and dropped.
sendToTopic(p) ==
    /\ Running
    /\ ppc[p] = "lookup"
    /\ IF TopicExists(ptopic[p])
       THEN /\ ptop' = [ptop EXCEPT ![p] = getTopic(ptopic[p])]
            /\ pfound' = [pfound EXCEPT ![p] = TRUE]
            /\ ppc' = [ppc EXCEPT ![p] = "rlock"]
       ELSE /\ ppc' = [ppc EXCEPT ![p] = "done"]
            /\ UNCHANGED <<ptop, pfound, hafter>>
    /\ UNCHANGED <<serverVars, listenVars, clientVars, timerVars, ptopic, pdata, ptmp, pid,
                   ppending, crashed, received, issued, closeCount, stopCount, cancelled, psnap, pstay, hafter>>
    /\ UNCHANGED serializeVars

\* Topic.SendMessage: t.mtx.RLock(); the range loop will visit the clients
\* the map holds now (the write lock is excluded until RUnlock).
TopicSendMessageRLock(p) ==
    /\ Running
    /\ ppc[p] = "rlock"
    /\ ppending' = [ppending EXCEPT ![p] = tclients[ptop[p]]]
    /\ IF tclients[ptop[p]] = {}
       THEN ppc' = [ppc EXCEPT ![p] = "done"] /\ ptop' = [ptop EXCEPT ![p] = NoTopic]
       ELSE ppc' = [ppc EXCEPT ![p] = "send"] /\ UNCHANGED ptop
    /\ UNCHANGED <<serverVars, listenVars, clientVars, timerVars, ptopic, pdata, ptmp, pid,
                   crashed, histVars>>
    /\ UNCHANGED serializeVars

\* Topic.SendMessage: one iteration, c.SendMessage(message), a rendezvous
\* with c's reader; after the last one, RUnlock.  A send on a closed channel
\* panics in the handler's goroutine, which net/http recovers: the read lock
\* stays held.
TopicSendMessage(p, c) ==
    /\ Running
    /\ ppc[p] = "send"
    /\ c \in ppending[p]
    /\ IF closed[c]
       THEN /\ ppc' = [ppc EXCEPT ![p] = "panicked"]
            /\ UNCHANGED <<ppending, received, ptop, hafter>>
       ELSE /\ ReaderReady(c)
            /\ received' = [received EXCEPT ![c] =
                   Append(@, [msg |-> TextMessage(pid[p], pdata[p]), src |-> p])]
            /\ ppending' = [ppending EXCEPT ![p] = @ \ {c}]
            /\ IF ppending[p] = {c}
               THEN ppc' = [ppc EXCEPT ![p] = "done"] /\ ptop' = [ptop EXCEPT ![p] = NoTopic]
               ELSE ppc' = [ppc EXCEPT ![p] = "send"] /\ UNCHANGED ptop
    /\ UNCHANGED <<serverVars, listenVars, clientVars, timerVars, ptopic, pdata, ptmp, pid,
                   crashed, issued, closeCount, stopCount, cancelled, psnap, pstay, pfound, hafter>>
    /\ UNCHANGED serializeVars

\* ---------------------------------------------------------------- the system
Next ==
    \/ \E c \in Clients : HConnectCall(c)
    \/ \E c \in Clients : HConnectPanic(c)
    \/ \E c \in Clients : HSetTimeoutHandler(c)
    \/ \E c \in Clients : HReturn(c)
    \/ \E c \in Clients : RemoteCancel(c)
    \/ \E c \in Clients : CancelSendPanic(c)
    \/ \E c \in Clients : LRecvConnected(c)
    \/ \E c \in Clients : LRecvDisconnectedCancel(c)
    \/ \E c \in Clients : LRecvDisconnectedTimer(c)
    \/ LRecvShutdown
    \/ onClientConnected
    \/ onClientDisconnected
    \/ destroyTopic
    \/ destroyTopicsNext
    \/ \E c \in Clients : TopicDestroy(c)
    \/ onServerShutdown
    \/ \E c \in Clients : TimerFire(c)
    \/ \E c \in Clients : TimerGenStore(c)
    \/ \E c \in Clients : TimerGenRead(c)
    \/ \E c \in Clients : TimerSend(c)
    \/ \E c \in Clients : TimerDiscPanic(c)
    \/ \E p \in Pubs : PubCall(p)
    \/ \E p \in Pubs : PubGenStore(p)
    \/ \E p \in Pubs : PubGenRead(p)
    \/ \E p \in Pubs : sendToTopic(p)
    \/ \E p \in Pubs : TopicSendMessageRLock(p)
    \/ \E p \in Pubs, c \in Clients : TopicSendMessage(p, c)

Spec == Init /\ [][Next]_vars

\* ------------------------------------------------- the event-loop variant
\* The Server of message.go:213-497.  Its listen goroutine, Topic and Client
\* are those above (Client without a timer field).  It differs in the
\* handlers: handleGetMessages selects on client.messages, its own timer and
\* the request's cancellation, and on return hands the client to the
\* coordinator itself and then drains client.messages; handlePostMessage
\* hands the POST to the processMessages goroutine, the only broadcaster.

\* time.NewTimer, the headers, the deferred calls; the handler enters its
\* select loop.
HNewTimer(c) ==
    /\ Running
    /\ hpc[c] = "connected"
    /\ hpc' = [hpc EXCEPT ![c] = "reading"]
    /\ UNCHANGED <<serverVars, listenVars, ctopic, closed, cpc, timerVars, pubVars, crashed,
                   histVars, serializeVars>>

\* case <-timer.C: the TimeoutMessage is written to the response, not sent
\* through client.messages; return runs the deferred function, which blocks
\* on s.clientDisconnected <- client.  tpc records that the timer has fired.
HTimerExpired(c) ==
    /\ Running
    /\ hpc[c] = "reading"
    /\ tpc[c] = "unset"
    /\ MoreEvents
    /\ \E e \in ElapsedDs :
        received' = [received EXCEPT ![c] =
            Append(@, [msg |-> TimeoutMessage("", FormatSeconds(RoundToEven(e))), src |-> 0])]
    /\ tpc' = [tpc EXCEPT ![c] = "done"]
    /\ hpc' = [hpc EXCEPT ![c] = "deferred"]
    /\ UNCHANGED <<serverVars, listenVars, ctopic, closed, cpc, ttmp, tid, tsec, pubVars, crashed,
                   issued, closeCount, stopCount, cancelled, psnap, pstay, pfound, hafter,
                   serializeVars>>

\* case <-requestFinished: return, the deferred function blocks on
\* s.clientDisconnected <- client.
HRequestFinished(c) ==
    /\ Running
    /\ hpc[c] = "reading"
    /\ ~cancelled[c]
    /\ MoreEvents
    /\ cancelled' = [cancelled EXCEPT ![c] = TRUE]
    /\ hpc' = [hpc EXCEPT ![c] = "deferred"]
    /\ UNCHANGED <<serverVars, listenVars, ctopic, closed, cpc, timerVars, pubVars, crashed,
                   received, issued, closeCount, stopCount, psnap, pstay, pfound, hafter,
                   serializeVars>>

\* case message := <-client.messages on the closed channel (Shutdown closed
\* it) yields nil, message.Serialize() panics, and the deferred function
\* runs.
HReadClosed(c) ==
    /\ Running
    /\ hpc[c] = "reading"
    /\ closed[c]
    /\ hpc' = [hpc EXCEPT ![c] = "deferred"]
    /\ UNCHANGED <<serverVars, listenVars, ctopic, closed, cpc, timerVars, pubVars, crashed,
                   histVars, serializeVars>>

\* The deferred s.clientDisconnected <- client on the closed channel panics;
\* net/http recovers it, the drain loop is not run.
HDeferPanic(c) ==
    /\ Running
    /\ hpc[c] = "deferred"
    /\ chansClosed
    /\ hpc' = [hpc EXCEPT ![c] = "panicked"]
    /\ UNCHANGED <<serverVars, listenVars, ctopic, closed, cpc, timerVars, pubVars, crashed,
                   histVars, serializeVars>>

\* case c := <-s.clientDisconnected, sent by the handler's deferred function,
\* which goes on to `for range client.messages {}`.
LRecvDisconnectedDeferred(c) ==
    /\ Running
    /\ lpc = "select"
    /\ hpc[c] = "deferred"
    /\ lpc' = "disc"
    /\ lclient' = c
    /\ hpc' = [hpc EXCEPT ![c] = "draining"]
    /\ UNCHANGED <<serverVars, ltopic, shutdownCalled, ctopic, closed, cpc, timerVars, pubVars,
                   crashed, histVars, serializeVars>>

\* `for range client.messages {}` ends when the channel is closed; the
\* handler returns.
HDrained(c) ==
    /\ Running
    /\ hpc[c] = "draining"
    /\ closed[c]
    /\ hpc' = [hpc EXCEPT ![c] = "returned"]
    /\ UNCHANGED <<serverVars, listenVars, ctopic, closed, cpc, timerVars, pubVars, crashed,
                   histVars, serializeVars>>

\* processMessages is inside sendMessageToTopic for some POST.
Processing == {p \in Pubs : ppc[p] \in {"lookup", "rlock", "send", "panicked"}}

\* A POST request arrives (POSTs are numbered in order of arrival); its
\* handler blocks on s.messageReceived <- messageRequest.
PostCall(p) ==
    /\ Running
    /\ ppc[p] = "idle"
    /\ \A q \in Pubs : q < p => ppc[q] # "idle"
    /\ MoreEvents
    /\ \E n \in TopicNames :
        /\ ptopic' = [ptopic EXCEPT ![p] = n]
        /\ pdata' = [pdata EXCEPT ![p] = Body(p)]
        /\ psnap' = [psnap EXCEPT ![p] = Subscribers(n)]
        /\ pstay' = [pstay EXCEPT ![p] = Subscribers(n)]
    /\ ppc' = [ppc EXCEPT ![p] = "posted"]
    /\ UNCHANGED <<serverVars, listenVars, clientVars, timerVars, ptmp, pid, ptop, ppending,
                   crashed, received, issued, closeCount, stopCount, cancelled, pfound, hafter,
                   serializeVars>>

\* processMessages: case m := <-s.messageReceived, when it is back in its
\* select.
processMessages(p) ==
    /\ Running
    /\ Processing = {}
    /\ ppc[p] = "posted"
    /\ ppc' = [ppc EXCEPT ![p] = "lookup"]
    /\ UNCHANGED <<serverVars, listenVars, clientVars, timerVars, ptopic, pdata, ptmp, pid, ptop,
                   ppending, crashed, histVars, serializeVars>>

\* sendMessageToTopic up to topic.SendMessage: getTopic and, with an entry,
\* generateMessageId, which has no other caller in this variant; without an
\* entry the message is logged and dropped.
sendMessageToTopic(p) ==
    /\ Running
    /\ ppc[p] = "lookup"
    /\ IF TopicExists(ptopic[p])
       THEN /\ ptop' = [ptop EXCEPT ![p] = getTopic(ptopic[p])]
            /\ pfound' = [pfound EXCEPT ![p] = TRUE]
            /\ lastMessageId' = GenStore(GenLoad)
            /\ pid' = [pid EXCEPT ![p] = GenStore(GenLoad)]
            /\ issued' = Append(issued, GenStore(GenLoad))
            /\ ppc' = [ppc EXCEPT ![p] = "rlock"]
       ELSE /\ ppc' = [ppc EXCEPT ![p] = "done"]
            /\ UNCHANGED <<ptop, pfound, lastMessageId, pid, issued>>
    /\ UNCHANGED <<topics, chansClosed, tclients, listenVars, clientVars, timerVars, ptopic, pdata,
                   ptmp, ppending, crashed, received, closeCount, stopCount, cancelled, psnap,
                   pstay, hafter, serializeVars>>

\* The reader side of c.messages <- m in this variant: the handler's select
\* loop, or its drain loop.
Draining(c) == hpc[c] = "draining"

\* Topic.SendMessage: one iteration whose message the client's drain loop
\* takes and drops; after the last one, RUnlock.
TopicSendMessageDrained(p, c) ==
    /\ Running
    /\ ppc[p] = "send"
    /\ c \in ppending[p]
    /\ ~closed[c]
    /\ Draining(c)
    /\ ppending' = [ppending EXCEPT ![p] = @ \ {c}]
    /\ IF ppending[p] = {c}
       THEN ppc' = [ppc EXCEPT ![p] = "done"] /\ ptop' = [ptop EXCEPT ![p] = NoTopic]
       ELSE ppc' = [ppc EXCEPT ![p] = "send"] /\ UNCHANGED ptop
    /\ UNCHANGED <<serverVars, listenVars, clientVars, timerVars, ptopic, pdata, ptmp, pid,
                   crashed, histVars, serializeVars>>

EventLoopNext ==
    \/ \E c \in Clients : HConnectCall(c)
    \/ \E c \in Clients : HConnectPanic(c)
    \/ \E c \in Clients : HNewTimer(c)
    \/ \E c \in Clients : HTimerExpired(c)
    \/ \E c \in Clients : HRequestFinished(c)
    \/ \E c \in Clients : HReadClosed(c)
    \/ \E c \in Clients : HDeferPanic(c)
    \/ \E c \in Clients : HDrained(c)
    \/ \E c \in Clients : LRecvConnected(c)
    \/ \E c \in Clients : LRecvDisconnectedDeferred(c)
    \/ LRecvShutdown
    \/ onClientConnected
    \/ onClientDisconnected
    \/ destroyTopic
    \/ destroyTopicsNext
    \/ \E c \in Clients : TopicDestroy(c)
    \/ onServerShutdown
    \/ \E p \in Pubs : PostCall(p)
    \/ \E p \in Pubs : processMessages(p)
    \/ \E p \in Pubs : sendMessageToTopic(p)
    \/ \E p \in Pubs : TopicSendMessageRLock(p)
    \/ \E p \in Pubs, c \in Clients : TopicSendMessage(p, c)
    \/ \E p \in Pubs, c \in Clients : TopicSendMessageDrained(p, c)

EventLoopSpec == Init /\ [][EventLoopNext]_vars

\* ------------------------------------------------------- Message.Serialize
\* The messages handed to the response writer: ids, events and payloads of
\* at most MaxDataLen characters, each possibly empty, the payload with line
\* breaks anywhere.
MaxDataLen == 3
Chars == {"a", "b", NL}
Ids == {<<>>, <<"7">>, <<"1", "2">>}
EventNames ==
    {<<>>, <<"m", "s", "g">>, <<"m", "e", "s", "s", "a", "g", "e">>,
     <<"t", "i", "m", "e", "o", "u", "t">>}
Payloads == UNION {[1..n -> Chars] : n \in 0..MaxDataLen}
Messages == {NewMessage(i, d, e) : i \in Ids, d \in Payloads, e \in EventNames}

SerializeInit ==
    /\ NewServer
    /\ message \in Messages
    /\ output = <<>>

\* fmt.Fprintf(response, message.Serialize())
WriteMessage ==
    /\ output = <<>>
    /\ output' = Serialize(message)
    /\ UNCHANGED <<serverVars, listenVars, clientVars, timerVars, pubVars, crashed, histVars,
                   message>>

SerializeNext == WriteMessage

SerializeSpec == SerializeInit /\ [][SerializeNext]_vars

\* ------------------------------------------------------------ properties
\* The clients that are in the subscriber set of some Topic object.
Subscribed == {c \in Clients : \E t \in TopicIds : c \in tclients[t]}
\* The entries of c's reception log that POST p broadcast.
Deliveries(c, p) == SelectSeq(received[c], LAMBDA e : e.src = p)
\* The coordinator is between two events (or has returned).
Quiescent == lpc \in {"select", "stopped"}

\* C1: once the coordinator has fully processed each Connect and Disconnect,
\* a topic name is in the registry if and only if some client is subscribed
\* under that name, and the subscribers of a name are in the registered Topic.
C1_RegisteredIffSubscribers ==
    Quiescent =>
        \A n \in TopicNames :
            /\ TopicExists(n) <=> (\E c \in Subscribed : ctopic[c] = n)
            /\ \A c \in Subscribed : ctopic[c] = n => c \in Subscribers(n)

\* C1 witness: the last Disconnect of one name has removed its entry while
\* another client's Connect keeps its topic registered.
C1_Witness ==
    /\ lpc = "select"
    /\ ~shutdownCalled
    /\ \E c, d \in Clients :
        /\ closeCount[c] = 1
        /\ ~TopicExists(ctopic[c])
        /\ ctopic[d] \in TopicNames
        /\ d \in Subscribers(ctopic[d])

C3_IdsStrictlyIncreasing ==
    \A i, j \in DOMAIN issued : i < j => issued[i] < issued[j]

\* C4 as stated: a second Disconnect of a client is a no-op: the channel is
\* closed once, and closing it again never panics.
C4_SecondDisconnectNoOp ==
    /\ \A c \in Clients : closeCount[c] <= 1
    /\ crashed # "close of closed channel"

\* C5 as stated: of Disconnect, timeout and Shutdown the first closes the
\* channel and the later ones change nothing and do not fault, also when they
\* come after Shutdown.
C5_LaterTerminationsNoFault ==
    /\ \A c \in Clients : closed[c] => closeCount[c] = 1
    /\ crashed = ""

\* The text messages in a reception log.
TextIds(r) == SelectSeq(r, LAMBDA e : e.msg.event = "msg")

\* C6 as stated: every subscriber receives the text messages of its topic in
\* strictly increasing id order, and two broadcasts to one topic are never
\* in progress together.
C6_DeliveryInPublishOrder ==
    /\ \A c \in Clients :
        \A i, j \in DOMAIN TextIds(received[c]) :
            i < j => TextIds(received[c])[i].msg.id < TextIds(received[c])[j].msg.id
    /\ \A p, q \in Pubs :
        (p # q /\ ppc[p] = "send" /\ ppc[q] = "send") => ptop[p] # ptop[q]

\* The timeout messages in a reception log.
Timeouts(r) == SelectSeq(r, LAMBDA e : e.msg.event = "timeout")

\* C7 as stated: a client whose expiry callback has delivered its message,
\* and that nothing else disconnected, has received exactly one timeout
\* Message, with data "30s", as its last message; once the coordinator has
\* processed the callback's removal request the client is out of every
\* subscriber set and its channel is closed.
C7_TimeoutIsLastMessage ==
    \A c \in Clients :
        (tpc[c] \in {"disc", "done"} /\ ~cancelled[c] /\ ~shutdownCalled) =>
            /\ Len(Timeouts(received[c])) = 1
            /\ received[c][Len(received[c])].msg.event = "timeout"
            /\ received[c][Len(received[c])].msg.data = "30s"
            /\ (tpc[c] = "done" /\ lpc = "select") => (c \notin Subscribed /\ closed[c])

\* C8: a Publish that finds no registry entry for its topic name delivers no
\* Message to any client, and no step of a Publish changes the registry or a
\* subscriber set.
C8_PublishNoSubscribers ==
    /\ [](\A p \in Pubs : (ppc[p] = "done" /\ ~pfound[p]) =>
            \A c \in Clients : Len(Deliveries(c, p)) = 0)
    /\ [][pubVars' # pubVars => UNCHANGED <<topics, tclients>>]_vars

\* C8 witness: a Publish to an unregistered name has returned while a client
\* is subscribed to the other topic, its reader running.
C8_Witness ==
    \E p \in Pubs, c \in Clients :
        /\ ppc[p] = "done"
        /\ ~pfound[p]
        /\ ~TopicExists(ptopic[p])
        /\ ctopic[c] \in TopicNames
        /\ c \in Subscribers(ctopic[c])
        /\ ReaderReady(c)

\* C9: when Shutdown has completed the registry is empty, every subscriber
\* set is empty, and every client that was connected has its channel closed,
\* closed exactly once.
C9_ShutdownClosesAll ==
    lpc = "stopped" =>
        /\ \A n \in TopicNames : ~TopicExists(n)
        /\ Subscribed = {}
        /\ \A c \in Clients :
            hpc[c] \in {"connected", "reading", "returned"} =>
                (closed[c] /\ closeCount[c] = 1)

\* C9 witness: Shutdown has completed and has closed two clients that
\* nothing else disconnected.
C9_Witness ==
    /\ lpc = "stopped"
    /\ crashed = ""
    /\ \A c \in Clients :
        /\ closeCount[c] = 1
        /\ ~cancelled[c]
        /\ tpc[c] \in {"unset", "stopped"}

\* C10 as stated: a Connect that arrives after Shutdown has completed is
\* rejected or ignored without a fault (its handler does not panic) and
\* subscribes nobody, and no broadcast is delivering after Shutdown.
C10_ConnectAfterShutdownRejected ==
    /\ \A c \in Clients : hafter[c] => hpc[c] # "panicked"
    /\ lpc = "stopped" => (Subscribed = {} /\ \A p \in Pubs : ppc[p] # "send")

\* The index of the first line break of s, 0 if it has none.
FirstNL(s) ==
    IF \E i \in 1..Len(s) : s[i] = NL
    THEN CHOOSE i \in 1..Len(s) : s[i] = NL /\ \A j \in 1..(i - 1) : s[j] # NL
    ELSE 0
\* The lines of s, split on line breaks: one more line than s has breaks.
RECURSIVE Split(_)
Split(s) ==
    IF FirstNL(s) = 0 THEN <<s>>
    ELSE <<SubSeq(s, 1, FirstNL(s) - 1)>> \o Split(SubSeq(s, FirstNL(s) + 1, Len(s)))
\* One `data: <line>` line per element of ls.
RECURSIVE DataLines(_)
DataLines(ls) ==
    IF ls = <<>> THEN <<>>
    ELSE DataPrefix \o Head(ls) \o <<NL>> \o DataLines(Tail(ls))
IdLine(m) == IF m.id # <<>> THEN IdPrefix \o m.id \o <<NL>> ELSE <<>>
EventLine(m) == IF m.event # <<>> THEN EventPrefix \o m.event \o <<NL>> ELSE <<>>
\* id="7", event="message", data="a\nb" and its serialization.
ExampleMessage ==
    NewMessage(<<"7">>, <<"a", NL, "b">>, <<"m", "e", "s", "s", "a", "g", "e">>)
ExampleOutput ==
    <<"i", "d", ":", " ", "7", NL,
      "e", "v", "e", "n", "t", ":", " ", "m", "e", "s", "s", "a", "g", "e", NL,
      "d", "a", "t", "a", ":", " ", "a", NL,
      "d", "a", "t", "a", ":", " ", "b", NL,
      NL>>

\* C11 as stated: the text written for a Message is its id line iff the id
\* is non-empty, its event line iff the event is non-empty, one data line
\* for each line of the payload split on line breaks (at least one, also for
\* an empty payload), then one blank line.
C11_Original ==
    output # <<>> =>
        output = IdLine(message) \o EventLine(message)
                    \o DataLines(Split(message.data)) \o <<NL>>

\* C11 amended: the text written for a Message is its id line iff the id is
\* non-empty, its event line iff the event is non-empty, no data line when
\* the payload is empty and otherwise one data line for each line of the
\* payload split on line breaks, then one blank line; the Message with id
\* "7", event "message" and data "a\nb" is written as the text
\* "id: 7\nevent: message\ndata: a\ndata: b\n\n".
C11_DataLinesOfNonEmptyPayload ==
    output # <<>> =>
        /\ output = IdLine(message) \o EventLine(message)
                    \o (IF message.data = <<>> THEN <<>>
                        ELSE DataLines(Split(message.data)))
                    \o <<NL>>
        /\ message = ExampleMessage => output = ExampleOutput

\* C11 witness: the example Message has been written, as the example text.
C11_Witness ==
    /\ message = ExampleMessage
    /\ output = ExampleOutput

\* The coordinator's next step takes the write lock of topic object t:
\* Subscribe in onClientConnected, Unsubscribe in onClientDisconnected or in
\* Topic.Destroy.
CoordinatorNeedsLock(t) ==
    \/ /\ lpc \in {"conn", "disc"}
       /\ TopicExists(ctopic[lclient])
       /\ getTopic(ctopic[lclient]) = t
    \/ /\ lpc = "shut"
       /\ ltopic = t

\* C12 as stated, for the event-loop variant: no state is reachable in which
\* the broadcaster holds a topic's read lock with a client still to be
\* delivered to, the coordinator is waiting for that topic's write lock, and
\* that client is blocked handing its disconnect to the coordinator.
C12_NoLockCycle ==
    \A p \in Pubs, c \in Clients :
        ~ /\ ppc[p] = "send"
          /\ c \in ppending[p]
          /\ hpc[c] = "deferred"
          /\ CoordinatorNeedsLock(ptop[p])
          /\ ~NoReaders(ptop[p])

\* C13 as stated: no step sends a message on a client's delivery channel
\* that has been closed, neither a broadcast's nor the expiry callback's,
\* and a client whose channel is closed is in no subscriber set.
C13_NoSendOnClosedChannel ==
    /\ [](\A c \in Clients : closed[c] => c \notin Subscribed)
    /\ [][\A c \in Clients :
            closed[c] => ~(TimerSend(c) \/ \E p \in Pubs : TopicSendMessage(p, c))]_vars

\* The client has been unsubscribed and closed at the request of the
\* cancellation goroutine or by Shutdown: its channel is closed while the
\* coordinator has received no removal request of its expiry callback.
DisconnectedByOtherPath(c) == closed[c] /\ tpc[c] # "done"

\* C14 as stated: once a client has been disconnected by a path other than
\* its expiry timer, the expiry callback takes no step: it does not start,
\* it sends nothing on the client's channel, and no removal request of it
\* reaches the coordinator.
C14_TimerNoOpAfterDisconnect ==
    [][\A c \in Clients :
        DisconnectedByOtherPath(c) =>
            ~(TimerFire(c) \/ TimerSend(c) \/ LRecvDisconnectedTimer(c))]_vars

\* The coordinator has processed the client's Connect.
Connected(c) ==
    /\ hpc[c] \in {"connected", "reading"}
    /\ ~(lpc = "conn" /\ lclient = c)
\* The Topic objects that hold a client of the name.
TopicsOf(n) == {t \in TopicIds : \E c \in tclients[t] : ctopic[c] = n}
\* Every connected client whose channel is open is in the subscriber set of
\* the Topic registered under its name, and no other Topic object holds a
\* client of that name.
MembersOfRegisteredTopic ==
    /\ \A c \in Clients :
        (Connected(c) /\ ~closed[c]) =>
            (TopicExists(ctopic[c]) /\ c \in Subscribers(ctopic[c]))
    /\ \A n \in TopicNames : TopicsOf(n) \subseteq {getTopic(n)}

\* C15 as stated: in every interleaving the Connects to one name create one
\* Topic, and every connected, non-terminated client is a member of the
\* Topic currently registered under its name.
C15_Original == MembersOfRegisteredTopic

\* C15 amended: the same, in the interleavings of Connect, Disconnect,
\* timeout and Publish up to the call of Shutdown.
C15_MemberUntilShutdown == ~shutdownCalled => MembersOfRegisteredTopic

\* C15 witness: two Connects to one name have been processed and both
\* clients are in the one Topic registered under it.
C15_Witness ==
    /\ ~shutdownCalled
    /\ lpc = "select"
    /\ \E c, d \in Clients :
        /\ c # d
        /\ ctopic[c] = ctopic[d]
        /\ Connected(c) /\ Connected(d)
        /\ ~closed[c] /\ ~closed[d]
        /\ TopicsOf(ctopic[c]) = {getTopic(ctopic[c])}
        /\ {c, d} \subseteq Subscribers(ctopic[c])

\* A step that terminates client c: the coordinator processes a removal
\* request for it, or its expiry callback delivers the timeout Message.
Terminates(c) ==
    \/ lpc = "disc" /\ lclient = c /\ onClientDisconnected
    \/ TimerSend(c)

\* C16 as stated: a step that terminates one client, by timeout or by
\* Disconnect, does not end the process under another subscriber and
\* changes nothing of any other client: none receives a message, leaves or
\* joins a subscriber set or has its channel closed, and a topic with
\* another subscriber stays registered; a topic is removed from the
\* registry by a Disconnect only when it has no subscriber.
C16_TerminationAffectsOnlyClient ==
    [][/\ \A c \in Clients :
            Terminates(c) =>
                /\ Subscribed \ {c} # {} => crashed' = ""
                /\ \A d \in Clients \ {c} :
                    /\ received'[d] = received[d]
                    /\ closed'[d] = closed[d]
                    /\ \A t \in TopicIds : d \in tclients'[t] <=> d \in tclients[t]
                /\ \A n \in TopicNames :
                    Subscribers(n) \ {c} # {} => topics'[n] = topics[n]
       /\ destroyTopic => tclients[ltopic] = {}]_vars

\* The broadcast of POST p is in progress: Topic.SendMessage holds the read
\* lock of ptop[p] and has clients left to deliver to.
Broadcasting(p) == ppc[p] = "send"

\* C17: while a broadcast is in progress every client of the topic's
\* subscriber set either has accepted its Message or is still to be
\* delivered to; no step adds a client to or removes one from that set; and
\* the broadcast completes only by the step in which the last such client
\* accepts the Message.
C17_BroadcastRendezvous ==
    /\ [](\A p \in Pubs : Broadcasting(p) =>
            /\ ppending[p] # {}
            /\ ppending[p] \subseteq tclients[ptop[p]]
            /\ \A c \in tclients[ptop[p]] \ ppending[p] : Len(Deliveries(c, p)) = 1
            /\ \A c \in ppending[p] : Len(Deliveries(c, p)) = 0)
    /\ [][\A p \in Pubs : Broadcasting(p) =>
            /\ tclients'[ptop[p]] = tclients[ptop[p]]
            /\ ppc'[p] \in {"send", "done"}
            /\ ppc'[p] = "done" =>
                \E c \in Clients :
                    /\ ppending[p] = {c}
                    /\ Len(Deliveries(c, p)') = 1
                    /\ \A d \in tclients[ptop[p]] : Len(Deliveries(d, p)') = 1]_vars

\* C17 witness: of two subscribers one has accepted the Message and the
\* other has not, and the coordinator, with a removal request for the first
\* in hand, waits for the topic's write lock.
C17_Witness ==
    \E p \in Pubs, c, d \in Clients :
        /\ Broadcasting(p)
        /\ c \in ppending[p]
        /\ d \in tclients[ptop[p]] \ ppending[p]
        /\ Len(Deliveries(d, p)) = 1
        /\ lpc = "disc"
        /\ lclient = d
        /\ getTopic(ctopic[d]) = ptop[p]

\* C18: every text Message a client has received was published to the
\* client's own topic name; a client is in at most one Topic's subscriber
\* set; the clients of one Topic all have the same topic name, and those of
\* the Topic registered under a name have that name.
C18_DeliveredOnlyToOwnTopic ==
    /\ \A c \in Clients : \A i \in DOMAIN received[c] :
        received[c][i].msg.event = "msg" =>
            /\ received[c][i].src \in Pubs
            /\ ptopic[received[c][i].src] = ctopic[c]
    /\ \A c \in Clients : Cardinality({t \in TopicIds : c \in tclients[t]}) <= 1
    /\ \A t \in TopicIds : \A c, d \in tclients[t] : ctopic[c] = ctopic[d]
    /\ \A n \in TopicNames : \A c \in Subscribers(n) : ctopic[c] = n

\* C18 witness: both topic names are registered, each with a subscriber,
\* and a Publish to one has returned after delivering its Message to that
\* topic's subscriber and not to the other's.
C18_Witness ==
    \E p \in Pubs, c, d \in Clients :
        /\ ppc[p] = "done"
        /\ ctopic[c] = ptopic[p]
        /\ ctopic[d] \in TopicNames \ {ptopic[p]}
        /\ c \in Subscribers(ctopic[c])
        /\ d \in Subscribers(ctopic[d])
        /\ ReaderReady(d)
        /\ Len(Deliveries(c, p)) = 1
        /\ Len(Deliveries(d, p)) = 0

\* The coordinator holds a removal request for a client whose topic name
\* has no registry entry.
DisconnectOfOrphan == lpc = "disc" /\ ~TopicExists(ctopic[lclient])

\* C19: the step in which the coordinator processes a removal request for a
\* client whose topic name is not in the registry does not fault and leaves
\* the registry, every subscriber set, every client's channel and the
\* message-id counter as they were; the coordinator returns to its select.
C19_DisconnectUnregisteredNoOp ==
    [][(DisconnectOfOrphan /\ lpc' # "disc") =>
            /\ UNCHANGED <<topics, tclients, closed, closeCount, lastMessageId, crashed>>
            /\ lpc' = "select"]_vars

\* C19 witness: both removal requests of a client, its cancellation's and
\* its expiry callback's, have been processed; the first closed the channel
\* and left the name unregistered, the second found no entry and the
\* process is running.
C19_Witness ==
    \E c \in Clients :
        /\ cpc[c] = "done"
        /\ tpc[c] = "done"
        /\ lpc = "select"
        /\ crashed = ""
        /\ closeCount[c] = 1
        /\ ~TopicExists(ctopic[c])

\* In the event-loop variant every client hands over one removal request,
\* while it is subscribed: the coordinator never holds one for a name
\* without a registry entry.
EventLoopNoOrphan == ~DisconnectOfOrphan

====
